---- MODULE Spec2Model ----
(***************************************************************************)
(* Content script of hantranslate.ai: extraction of translatable block     *)
(* elements from the page (content/domExtractor.ts), index based write     *)
(* back of translated markup (content/domReplacer.ts) and the message      *)
(* listener that drives both.                                              *)
(*                                                                         *)
(* The page is a tree of element nodes 1..MaxNodes below the document (0). *)
(* Every element carries a tag, the data-no-translate attribute and the    *)
(* serialised markup of its text and inline children (inlineMarkup); its   *)
(* element children follow in childNodes.  Markup is a sequence of         *)
(* symbols: text runs, open tags and close tags.                           *)
(***************************************************************************)
EXTENDS Integers, Sequences, FiniteSets, TLC

\* ------------------------------------------------------------------ bounds
MaxNodes == 3
MaxBatch == 2

Document == 0
Nodes == 1..MaxNodes

VARIABLES
    childNodes,       \* [0..MaxNodes -> Seq(Nodes)]: element children, in order
    element,          \* [Nodes -> [tag, noTranslate]]
    inlineMarkup,     \* [Nodes -> markup]: text and inline children, serialised
    extractedBlocks,  \* domExtractor.ts module state: Element[]
    texts,            \* the last TEXT_NODES response, as the caller holds it
    issued,           \* number of ids handed out by the current pass and by
                      \* the pass it superseded, current pass first
    last              \* what the last step did

vars == <<childNodes, element, inlineMarkup, extractedBlocks, texts, issued, last>>

\* The part of the page that innerHTML writes change.
Dom == [childNodes |-> childNodes, inlineMarkup |-> inlineMarkup]

\* ------------------------------------------------------------------ markup
\* k: "text", "open" or "close"; v: the text or the tag name; attr: the
\* attributes of an open tag.
Txt(v) == [k |-> "text", v |-> v, attr |-> ""]
OpenWith(t, attr) == [k |-> "open", v |-> t, attr |-> attr]
Open(t) == OpenWith(t, "")
Close(t) == [k |-> "close", v |-> t, attr |-> ""]

Range(s) == {s[i] : i \in 1..Len(s)}

RECURSIVE ConcatAll(_)
ConcatAll(ss) ==
    IF Len(ss) = 0 THEN <<>> ELSE Head(ss) \o ConcatAll(Tail(ss))

\* Whitespace, as String.prototype.trim() strips it.
IsWhitespace(c) == c.k = "text" /\ c.v = "_"

\* ------------------------------------------------------------------ selectors
BLOCK_SELECTORS ==
    {"p", "li", "td", "th", "dt", "dd", "h1", "h2", "h3", "h4", "h5", "h6",
     "blockquote", "figcaption"}

SKIP_SELECTORS ==
    {"script", "style", "noscript", "pre", "textarea", "input", "svg", "math",
     "[data-no-translate]"}

\* Element.matches(sel) for the two selector shapes the lists use.
Matches(el, sel) ==
    IF sel = "[data-no-translate]"
    THEN element[el].noTranslate
    ELSE element[el].tag = sel

\* ------------------------------------------------------------------ DOM reads
ParentElement(n) == {p \in Nodes : n \in Range(childNodes[p])}

RECURSIVE InclusiveAncestors(_)
InclusiveAncestors(n) ==
    {n} \cup UNION {InclusiveAncestors(p) : p \in ParentElement(n)}

\* a.contains(b): b is a or a descendant of a.
Contains(a, b) == a \in InclusiveAncestors(b)

\* el.closest(sel) !== null
ClosestExists(el, sel) == \E a \in InclusiveAncestors(el) : Matches(a, sel)

\* Whether n is connected to the document (Node.isConnected).
IsConnected(n) == \E a \in InclusiveAncestors(n) : a \in Range(childNodes[Document])

RECURSIVE PreOrder(_)
PreOrder(n) ==
    <<n>> \o ConcatAll([i \in 1..Len(childNodes[n]) |-> PreOrder(childNodes[n][i])])

\* document.querySelectorAll(selectors.join(", ")): matching elements in
\* document (pre-order) order.
QuerySelectorAll(selectors) ==
    SelectSeq(Tail(PreOrder(Document)),
              LAMBDA n : \E sel \in selectors : Matches(n, sel))

OpenTagOf(n) ==
    OpenWith(element[n].tag, IF element[n].noTranslate THEN "data-no-translate" ELSE "")

\* Element.innerHTML (getter) in page dom: the serialisation of the children.
RECURSIVE Serialize(_, _)
Serialize(dom, n) ==
    dom.inlineMarkup[n]
    \o ConcatAll([i \in 1..Len(dom.childNodes[n]) |->
          <<OpenTagOf(dom.childNodes[n][i])>>
          \o Serialize(dom, dom.childNodes[n][i])
          \o <<Close(element[dom.childNodes[n][i]].tag)>>])

InnerHTML(n) == Serialize(Dom, n)

\* Node.textContent: the text of all descendants, markup dropped.
TextContent(n) == SelectSeq(InnerHTML(n), LAMBDA c : c.k = "text")

\* !block.textContent?.trim()
IsBlank(n) == \A i \in 1..Len(TextContent(n)) : IsWhitespace(TextContent(n)[i])

\* ------------------------------------------------------------------ domExtractor.ts
\* shouldSkip testing the element alone (matches) instead of closest.
shouldSkipSelfOnly(el) == \E sel \in SKIP_SELECTORS : Matches(el, sel)

shouldSkip(el) == \E sel \in SKIP_SELECTORS : ClosestExists(el, sel)

\* The pairwise test of the earlier extractTextNodes: element holds another
\* block of allBlocks.
hasBlockDescendant(el, allBlocks) ==
    \E i \in 1..Len(allBlocks) : allBlocks[i] # el /\ Contains(el, allBlocks[i])

\* PopWhileNotContaining without the while loop: nothing is popped.
PopNothing(stack, el) == stack

RECURSIVE PopWhileNotContaining(_, _)
PopWhileNotContaining(stack, el) ==
    IF Len(stack) > 0 /\ ~Contains(stack[Len(stack)], el)
    THEN PopWhileNotContaining(SubSeq(stack, 1, Len(stack) - 1), el)
    ELSE stack

\* StackScan marking the bottom of the stack instead of its top.
RECURSIVE StackScanBottom(_, _, _, _)
StackScanBottom(allBlocks, i, stack, nonLeafBlocks) ==
    IF i > Len(allBlocks) THEN nonLeafBlocks
    ELSE LET el == allBlocks[i]
             open == PopWhileNotContaining(stack, el)
             marked == IF Len(open) > 0
                       THEN nonLeafBlocks \cup {open[1]}
                       ELSE nonLeafBlocks
         IN StackScanBottom(allBlocks, i + 1, Append(open, el), marked)

RECURSIVE StackScan(_, _, _, _)
StackScan(allBlocks, i, stack, nonLeafBlocks) ==
    IF i > Len(allBlocks) THEN nonLeafBlocks
    ELSE LET el == allBlocks[i]
             open == PopWhileNotContaining(stack, el)
             marked == IF Len(open) > 0
                       THEN nonLeafBlocks \cup {open[Len(open)]}
                       ELSE nonLeafBlocks
         IN StackScan(allBlocks, i + 1, Append(open, el), marked)

findNonLeafBlocks(allBlocks) == StackScan(allBlocks, 1, <<>>, {})

\* The three `continue` tests of the extraction loop.
IsExtracted(block, nonLeafBlocks) ==
    /\ ~shouldSkip(block)
    /\ block \notin nonLeafBlocks
    /\ ~IsBlank(block)

\* ExtractLoop taking the markup of a block before the blank test.
RECURSIVE ExtractLoopEarlyPush(_, _, _, _)
ExtractLoopEarlyPush(blocks, i, nonLeafBlocks, acc) ==
    IF i > Len(blocks) THEN acc
    ELSE LET block == blocks[i] IN
         IF shouldSkip(block) \/ block \in nonLeafBlocks
         THEN ExtractLoopEarlyPush(blocks, i + 1, nonLeafBlocks, acc)
         ELSE ExtractLoopEarlyPush(blocks, i + 1, nonLeafBlocks,
                 [extractedBlocks |-> IF IsBlank(block) THEN acc.extractedBlocks
                                      ELSE Append(acc.extractedBlocks, block),
                  texts |-> Append(acc.texts, InnerHTML(block))])

RECURSIVE ExtractLoop(_, _, _, _)
ExtractLoop(blocks, i, nonLeafBlocks, acc) ==
    IF i > Len(blocks) THEN acc
    ELSE LET block == blocks[i] IN
         IF IsExtracted(block, nonLeafBlocks)
         THEN ExtractLoop(blocks, i + 1, nonLeafBlocks,
                 [extractedBlocks |-> Append(acc.extractedBlocks, block),
                  texts |-> Append(acc.texts, InnerHTML(block))])
         ELSE ExtractLoop(blocks, i + 1, nonLeafBlocks, acc)

\* extractTranslatableContents without the reset of extractedBlocks.
extractTranslatableContentsNoReset ==
    LET blocks == QuerySelectorAll(BLOCK_SELECTORS)
        nonLeafBlocks == findNonLeafBlocks(blocks)
    IN ExtractLoop(blocks, 1, nonLeafBlocks,
                   [extractedBlocks |-> extractedBlocks, texts |-> <<>>])

\* extractTranslatableContents marking the containers among the blocks that
\* pass the skip and blank tests only.
extractTranslatableContentsFilterFirst ==
    LET blocks == QuerySelectorAll(BLOCK_SELECTORS)
        kept == SelectSeq(blocks, LAMBDA b : ~shouldSkip(b) /\ ~IsBlank(b))
        nonLeafBlocks == findNonLeafBlocks(kept)
    IN ExtractLoop(blocks, 1, nonLeafBlocks, [extractedBlocks |-> <<>>, texts |-> <<>>])

\* extractTranslatableContents with a texts array that outlives the call.
extractTranslatableContentsKeepTexts ==
    LET blocks == QuerySelectorAll(BLOCK_SELECTORS)
        nonLeafBlocks == findNonLeafBlocks(blocks)
    IN ExtractLoop(blocks, 1, nonLeafBlocks, [extractedBlocks |-> <<>>, texts |-> texts])

extractTranslatableContents ==
    LET blocks == QuerySelectorAll(BLOCK_SELECTORS)
        nonLeafBlocks == findNonLeafBlocks(blocks)
    IN ExtractLoop(blocks, 1, nonLeafBlocks, [extractedBlocks |-> <<>>, texts |-> <<>>])

\* ------------------------------------------------------------------ innerHTML writes
\* The HTML fragment parser followed by serialisation: what innerHTML reads
\* back after text was assigned to it.  Text and open tags are kept; a close
\* tag closes the nearest open element of its name together with everything
\* opened inside it, and is dropped when no such element is open; elements
\* still open at the end of the input are closed.
RECURSIVE CloseAll(_)
CloseAll(open) ==
    IF Len(open) = 0 THEN <<>>
    ELSE <<Close(open[Len(open)])>> \o CloseAll(SubSeq(open, 1, Len(open) - 1))

RECURSIVE ParseFragment(_, _, _)
ParseFragment(text, i, open) ==
    IF i > Len(text) THEN CloseAll(open)
    ELSE LET c == text[i] IN
         IF c.k = "open"
         THEN <<c>> \o ParseFragment(text, i + 1, Append(open, c.v))
         ELSE IF c.k = "close"
         THEN IF c.v \in Range(open)
              THEN LET at == CHOOSE j \in 1..Len(open) :
                                /\ open[j] = c.v
                                /\ \A m \in (j + 1)..Len(open) : open[m] # c.v
                   IN CloseAll(SubSeq(open, at, Len(open)))
                      \o ParseFragment(text, i + 1, SubSeq(open, 1, at - 1))
              ELSE ParseFragment(text, i + 1, open)
         ELSE <<c>> \o ParseFragment(text, i + 1, open)

\* block.innerHTML += text: the parsed text is added after the children.
SetInnerHTMLAppend(dom, block, text) ==
    [childNodes |-> [dom.childNodes EXCEPT ![block] = <<>>],
     inlineMarkup |-> [dom.inlineMarkup EXCEPT
                          ![block] = ParseFragment(Serialize(dom, block) \o text, 1, <<>>)]]

\* block.textContent = text: the text is not parsed, its tags become text.
SetTextContent(dom, block, text) ==
    [childNodes |-> [dom.childNodes EXCEPT ![block] = <<>>],
     inlineMarkup |-> [dom.inlineMarkup EXCEPT
                          ![block] = [i \in 1..Len(text) |-> Txt(text[i].v)]]]

\* block.innerHTML = text: the children of block are replaced by the parsed text.
SetInnerHTML(dom, block, text) ==
    [childNodes |-> [dom.childNodes EXCEPT ![block] = <<>>],
     inlineMarkup |-> [dom.inlineMarkup EXCEPT ![block] = ParseFragment(text, 1, <<>>)]]

\* ------------------------------------------------------------------ domReplacer.ts
\* `if (block)` for block = blocks[index]: the index has a registry entry.
HasBlock(blocks, index) == index \in 0..(Len(blocks) - 1)

BlockAt(blocks, index) == blocks[index + 1]

\* ReplaceLoop returning after its first write.
RECURSIVE ReplaceLoopFirstOnly(_, _, _, _)
ReplaceLoopFirstOnly(blocks, replacements, i, acc) ==
    IF i > Len(replacements) THEN acc
    ELSE LET r == replacements[i] IN
         IF HasBlock(blocks, r.index)
         THEN [dom |-> SetInnerHTML(acc.dom, BlockAt(blocks, r.index), r.text),
               written |-> acc.written \cup {BlockAt(blocks, r.index)}]
         ELSE ReplaceLoopFirstOnly(blocks, replacements, i + 1, acc)

\* ReplaceLoop giving up at the first entry without a registry entry.
RECURSIVE ReplaceLoopAbort(_, _, _, _)
ReplaceLoopAbort(blocks, replacements, i, acc) ==
    IF i > Len(replacements) THEN acc
    ELSE LET r == replacements[i] IN
         IF HasBlock(blocks, r.index)
         THEN ReplaceLoopAbort(blocks, replacements, i + 1,
                 [dom |-> SetInnerHTML(acc.dom, BlockAt(blocks, r.index), r.text),
                  written |-> acc.written \cup {BlockAt(blocks, r.index)}])
         ELSE acc

\* ReplaceLoop taking the position of the entry in the message for its index.
RECURSIVE ReplaceLoopByPosition(_, _, _, _)
ReplaceLoopByPosition(blocks, replacements, i, acc) ==
    IF i > Len(replacements) THEN acc
    ELSE IF HasBlock(blocks, i - 1)
         THEN ReplaceLoopByPosition(blocks, replacements, i + 1,
                 [dom |-> SetInnerHTML(acc.dom, BlockAt(blocks, i - 1), replacements[i].text),
                  written |-> acc.written \cup {BlockAt(blocks, i - 1)}])
         ELSE ReplaceLoopByPosition(blocks, replacements, i + 1, acc)

\* The loop of replaceTextNodes from entry i on; acc is the page so far and
\* the elements written so far.
RECURSIVE ReplaceLoop(_, _, _, _)
ReplaceLoop(blocks, replacements, i, acc) ==
    IF i > Len(replacements) THEN acc
    ELSE LET r == replacements[i] IN
         IF HasBlock(blocks, r.index)
         THEN ReplaceLoop(blocks, replacements, i + 1,
                 [dom |-> SetInnerHTML(acc.dom, BlockAt(blocks, r.index), r.text),
                  written |-> acc.written \cup {BlockAt(blocks, r.index)}])
         ELSE ReplaceLoop(blocks, replacements, i + 1, acc)

replaceTextNodes(dom, blocks, replacements) ==
    ReplaceLoop(blocks, replacements, 1, [dom |-> dom, written |-> {}])

\* ------------------------------------------------------------------ inputs
\* Translated markup as the translator may return it: text with an element
\* left open, and whitespace only.
Translations ==
    { <<Txt("y"), Open("strong"), Txt("y")>>, <<Txt("_")>> }

Max(a, b) == IF a >= b THEN a ELSE b

\* Ids a REPLACE_TEXT message may carry: those of the registry, those of the
\* remembered passes and one beyond them.
Indexes ==
    0..Max(Len(extractedBlocks), IF Len(issued) > 1 THEN issued[2] ELSE 0)

RECURSIVE SeqsUpTo(_, _)
SeqsUpTo(S, n) ==
    IF n = 0 THEN {<<>>}
    ELSE SeqsUpTo(S, n - 1)
         \cup {Append(q, x) : q \in {r \in SeqsUpTo(S, n - 1) : Len(r) = n - 1}, x \in S}

Batches == SeqsUpTo([index : Indexes, text : Translations], MaxBatch)

\* ------------------------------------------------------------------ initial pages
\* What one element of an initial page may be: tag, attribute, own markup.
NodeTypes ==
    { [tag |-> "p",   noTranslate |-> FALSE, inline |-> <<Txt("x")>>],
      [tag |-> "p",   noTranslate |-> FALSE, inline |-> <<Txt("_")>>],
      [tag |-> "blockquote", noTranslate |-> FALSE,
       inline |-> <<Txt("x"), Open("code"), Txt("x"), Close("code")>>],
      [tag |-> "p",   noTranslate |-> TRUE,  inline |-> <<Txt("x")>>],
      [tag |-> "div", noTranslate |-> FALSE, inline |-> <<Txt("x")>>],
      [tag |-> "pre", noTranslate |-> FALSE, inline |-> <<Txt("x")>>] }

\* Trees: node n hangs below the document or below a node with a smaller number.
ParentChoices == {f \in [Nodes -> 0..MaxNodes] : \A n \in Nodes : f[n] < n}

RECURSIVE Ascending(_)
Ascending(S) ==
    IF S = {} THEN <<>>
    ELSE LET m == CHOOSE x \in S : \A y \in S : x <= y
         IN <<m>> \o Ascending(S \ {m})

NoOp == [op |-> "init", written |-> {}, age |-> 0, invalid |-> FALSE, changed |-> FALSE]

InitSession ==
    /\ extractedBlocks = <<>>
    /\ texts = <<>>
    /\ issued = <<>>
    /\ last = NoOp

\* Every page of MaxNodes elements built from NodeTypes.
InitAnyPage ==
    /\ \E f \in ParentChoices :
          childNodes = [p \in 0..MaxNodes |-> Ascending({n \in Nodes : f[n] = p})]
    /\ \E t \in [Nodes -> NodeTypes] :
          /\ element = [n \in Nodes |-> [tag |-> t[n].tag, noTranslate |-> t[n].noTranslate]]
          /\ inlineMarkup = [n \in Nodes |-> t[n].inline]
    /\ InitSession

\* A page given by the parents and the types of its first Len(parents)
\* elements; the remaining elements are empty and not in the document.
Spare == [tag |-> "div", noTranslate |-> FALSE, inline |-> <<>>]

PageOf(parents, types) ==
    LET used == 1..Len(parents)
        t == [n \in Nodes |-> IF n \in used THEN types[n] ELSE Spare]
    IN [childNodes |-> [p \in 0..MaxNodes |->
                           Ascending({n \in used : parents[n] = p})],
        element |-> [n \in Nodes |-> [tag |-> t[n].tag, noTranslate |-> t[n].noTranslate]],
        inlineMarkup |-> [n \in Nodes |-> t[n].inline]]

El(tag, inline) == [tag |-> tag, noTranslate |-> FALSE, inline |-> inline]

\* <blockquote>x<p>x<strong>x</strong></p></blockquote>
\* <p>x</p><p>x<code>x</code></p>
\* <li>x<pre>x</pre></li>
ScenarioPages ==
    { PageOf(<<0, 1>>, <<El("blockquote", <<Txt("x")>>),
                         El("p", <<Txt("x"), Open("strong"), Txt("x"), Close("strong")>>)>>),
      PageOf(<<0, 0>>, <<El("p", <<Txt("x")>>),
                         El("p", <<Txt("x"), Open("code"), Txt("x"), Close("code")>>)>>),
      PageOf(<<0, 1>>, <<El("li", <<Txt("x")>>), El("pre", <<Txt("x")>>)>>) }

InitScenario ==
    /\ \E page \in ScenarioPages :
          /\ childNodes = page.childNodes
          /\ element = page.element
          /\ inlineMarkup = page.inlineMarkup
    /\ InitSession

\* ------------------------------------------------------------------ listener
\* message.type === "GET_TEXT_NODES": extract and answer with the texts.
GetTextNodes ==
    /\ LET r == extractTranslatableContents IN
          /\ extractedBlocks' = r.extractedBlocks
          /\ texts' = r.texts
          /\ issued' = <<Len(r.texts)>> \o SubSeq(issued, 1, IF Len(issued) > 0 THEN 1 ELSE 0)
    /\ last' = [NoOp EXCEPT !.op = "extract"]
    /\ UNCHANGED <<childNodes, element, inlineMarkup>>

\* Whether some element of page dom reads another innerHTML than it does now.
MarkupChanged(dom) == \E n \in Nodes : Serialize(dom, n) # InnerHTML(n)

\* message.type === "REPLACE_TEXT" with message.replacements = replacements.
\* age tells which pass handed out the ids the message carries: 1 the
\* current pass, 2 the pass it superseded; 0 a message with an id the
\* current pass did not hand out and that is not from the superseded pass.
IssuedBy(replacements, age) ==
    /\ age \in 1..Len(issued)
    /\ \A i \in 1..Len(replacements) : replacements[i].index < issued[age]

ReplaceText(replacements, age) ==
    /\ IF age = 0 THEN ~IssuedBy(replacements, 1) ELSE IssuedBy(replacements, age)
    /\ LET r == replaceTextNodes(Dom, extractedBlocks, replacements) IN
          /\ childNodes' = r.dom.childNodes
          /\ inlineMarkup' = r.dom.inlineMarkup
          /\ last' = [op |-> "replace", written |-> r.written, age |-> age,
                      invalid |-> \E i \in 1..Len(replacements) :
                                     ~HasBlock(extractedBlocks, replacements[i].index),
                      changed |-> MarkupChanged(r.dom)]
    /\ UNCHANGED <<element, extractedBlocks, texts, issued>>

\* restore(id): the caller writes the markup it was handed for unit index back.
Restore(index) ==
    /\ index \in 0..(Len(texts) - 1)
    /\ LET r == replaceTextNodes(Dom, extractedBlocks,
                                 <<[index |-> index, text |-> texts[index + 1]]>>) IN
          /\ childNodes' = r.dom.childNodes
          /\ inlineMarkup' = r.dom.inlineMarkup
          /\ last' = [NoOp EXCEPT !.op = "restore", !.written = r.written,
                                  !.changed = MarkupChanged(r.dom)]
    /\ UNCHANGED <<element, extractedBlocks, texts, issued>>

\* A script of the page removes element n from its parent (n.remove()).
RemoveNode(n) ==
    /\ \E p \in 0..MaxNodes : n \in Range(childNodes[p])
    /\ childNodes' = [p \in 0..MaxNodes |-> SelectSeq(childNodes[p], LAMBDA m : m # n)]
    /\ last' = [NoOp EXCEPT !.op = "remove"]
    /\ UNCHANGED <<element, inlineMarkup, extractedBlocks, texts, issued>>

Next ==
    \/ GetTextNodes
    \/ \E replacements \in Batches, age \in 0..Len(issued) : ReplaceText(replacements, age)
    \/ \E index \in 0..(MaxNodes - 1) : Restore(index)

NextDetach ==
    \/ Next
    \/ \E n \in Nodes : RemoveNode(n)

\* The session on the scenario pages.
Spec == InitScenario /\ [][Next]_vars

\* The session while scripts of the page remove elements.
SpecDetach == InitScenario /\ [][NextDetach]_vars

\* Extraction alone, on every page.
SpecExtract == InitAnyPage /\ [][GetTextNodes]_vars
\* ------------------------------------------------------------------ extraction claims
Candidates == QuerySelectorAll(BLOCK_SELECTORS)

Units == 1..Len(extractedBlocks)

\* A candidate that holds another candidate.
HoldsCandidate(b) == \E c \in Range(Candidates) : c # b /\ Contains(b, c)

\* An element that is, or lies below, an element no translation may touch.
InExcludedSubtree(n) ==
    \E a \in InclusiveAncestors(n) :
        \/ element[a].tag \in (SKIP_SELECTORS \ {"[data-no-translate]"})
        \/ element[a].noTranslate

PositionOf(n) == CHOOSE k \in 1..Len(PreOrder(Document)) : PreOrder(Document)[k] = n

\* C1: after an extraction no two elements of the registry are in an
\* ancestor/descendant relation.
LeafInvariant ==
    last.op = "extract" =>
        \A i \in Units, j \in Units :
            i # j => ~Contains(extractedBlocks[i], extractedBlocks[j])

\* An extraction left out a candidate with text of its own because it holds
\* another candidate, and registered that one.
LeafInvariantWitness ==
    /\ last.op = "extract"
    /\ \E b \in Range(Candidates), i \in Units :
          /\ b # extractedBlocks[i]
          /\ Contains(b, extractedBlocks[i])
          /\ ~InExcludedSubtree(b)
          /\ inlineMarkup[b] # <<Txt("_")>>

\* C8: after an extraction no unit is, or lies below, an excluded element, no
\* unit has blank text, and a page whose candidates are all blank or excluded
\* yields no unit and no text.
ExclusionAndBlank ==
    last.op = "extract" =>
        /\ \A i \in Units :
              /\ ~InExcludedSubtree(extractedBlocks[i])
              /\ \E j \in 1..Len(TextContent(extractedBlocks[i])) :
                    ~IsWhitespace(TextContent(extractedBlocks[i])[j])
        /\ (\A b \in Range(Candidates) : InExcludedSubtree(b) \/ IsBlank(b))
              => extractedBlocks = <<>> /\ texts = <<>>

\* An extraction registered one candidate and left out another one, with
\* text, that lies below an excluded element.
ExclusionAndBlankWitness ==
    /\ last.op = "extract"
    /\ Len(extractedBlocks) > 0
    /\ \E b \in Range(Candidates) :
          /\ ~IsBlank(b)
          /\ ~HoldsCandidate(b)
          /\ ~\E sel \in SKIP_SELECTORS : Matches(b, sel)
          /\ InExcludedSubtree(b)

\* C9: after an extraction the texts and the registry have the same length,
\* text i is the markup of registry element i, the registry is in document
\* order, and a replacement with index i is written to exactly that element.
IdPositionAlignment ==
    last.op = "extract" =>
        /\ Len(texts) = Len(extractedBlocks)
        /\ \A i \in Units : texts[i] = InnerHTML(extractedBlocks[i])
        /\ \A i \in Units, j \in Units :
              i < j => PositionOf(extractedBlocks[i]) < PositionOf(extractedBlocks[j])
        /\ \A i \in Units, t \in Translations :
              LET r == replaceTextNodes(Dom, extractedBlocks, <<[index |-> i - 1, text |-> t]>>)
              IN /\ r.written = {extractedBlocks[i]}
                 /\ Serialize(r.dom, extractedBlocks[i]) = ParseFragment(t, 1, <<>>)
                 /\ \A n \in Nodes \ {extractedBlocks[i]} :
                       r.dom.inlineMarkup[n] = inlineMarkup[n]

\* An extraction registered two units whose document order is not the order
\* of their node numbers.
IdPositionAlignmentWitness ==
    /\ last.op = "extract"
    /\ Len(extractedBlocks) > 1
    /\ extractedBlocks[1] > extractedBlocks[2]

\* The protected fragments of a markup: its inline code elements.
ProtectedFragments(markup) == {j \in 1..Len(markup) : markup[j] = Open("code")}

TokensOf(markup) == {j \in 1..Len(markup) : markup[j].k = "token"}

\* C10: the markup handed out for a unit with k protected fragments holds
\* exactly k distinct placeholder tokens, each once, and no markup of a
\* protected fragment.
TokenUniqueness ==
    last.op = "extract" =>
        \A i \in Units :
            /\ Cardinality(TokensOf(texts[i]))
                  = Cardinality(ProtectedFragments(InnerHTML(extractedBlocks[i])))
            /\ \A j \in TokensOf(texts[i]), m \in TokensOf(texts[i]) :
                  j # m => texts[i][j] # texts[i][m]
            /\ ProtectedFragments(texts[i]) = {}
\* ------------------------------------------------------------------ write back claims
\* C2: a replacement that carries ids of a superseded pass is skipped: it
\* writes no element.
StaleRejected ==
    (last.op = "replace" /\ last.age = 2) => last.written = {}

\* C3: restoring a unit, after whatever was applied to it, makes the markup
\* of its element the markup it had when it was extracted.
RoundTrip ==
    last.op = "restore" =>
        \A i \in Units :
            extractedBlocks[i] \in last.written => InnerHTML(extractedBlocks[i]) = texts[i]

\* A restore changed the markup of a unit: a translation had been applied.
RoundTripWitness ==
    /\ last.op = "restore"
    /\ last.written # {}
    /\ last.changed

\* The page after replaceTextNodes(replacements) on page dom.
Applied(dom, replacements) == replaceTextNodes(dom, extractedBlocks, replacements).dom

\* C4: replaceTextNodes(R) a second time leaves every element with the
\* markup the first call gave it.
ApplyIdempotent ==
    \A R \in Batches : Applied(Applied(Dom, R), R) = Applied(Dom, R)

\* A REPLACE_TEXT wrote a unit and changed nothing: its result had been
\* applied before.
ApplyIdempotentWitness ==
    /\ last.op = "replace"
    /\ last.written # {}
    /\ ~last.changed

One(i, t) == <<[index |-> i - 1, text |-> t]>>

\* C5: results for two distinct units applied in either order, in two calls
\* or in one, leave the same page.
OrderIndependent ==
    \A i \in Units, j \in Units, a \in Translations, b \in Translations :
        i # j =>
            LET ij == Applied(Applied(Dom, One(i, a)), One(j, b)) IN
            /\ Applied(Applied(Dom, One(j, b)), One(i, a)) = ij
            /\ Applied(Dom, One(i, a) \o One(j, b)) = ij
            /\ Applied(Dom, One(j, b) \o One(i, a)) = ij

\* Results for two units of one pass were applied in one message.
OrderIndependentWitness ==
    /\ last.op = "replace"
    /\ last.age = 1
    /\ Cardinality(last.written) > 1

\* The entries of R for unit i, by their position in R.
EntriesFor(R, i) == {m \in 1..Len(R) : R[m].index = i - 1}

LastOf(S) == CHOOSE m \in S : \A n \in S : n <= m

\* C6: in a batch with entries that have no registry entry, every unit with
\* an entry in the batch gets the markup of its last entry, and nothing else
\* is written.
PerUnitIsolation ==
    \A R \in Batches :
        LET r == replaceTextNodes(Dom, extractedBlocks, R) IN
        /\ r.written = {extractedBlocks[i] : i \in {u \in Units : EntriesFor(R, u) # {}}}
        /\ \A i \in Units :
              IF EntriesFor(R, i) = {}
              THEN Serialize(r.dom, extractedBlocks[i]) = InnerHTML(extractedBlocks[i])
              ELSE Serialize(r.dom, extractedBlocks[i])
                      = ParseFragment(R[LastOf(EntriesFor(R, i))].text, 1, <<>>)
        /\ \A n \in Nodes \ r.written :
              /\ r.dom.inlineMarkup[n] = inlineMarkup[n]
              /\ r.dom.childNodes[n] = childNodes[n]

\* A REPLACE_TEXT with an entry that has no registry entry wrote a unit.
PerUnitIsolationWitness ==
    /\ last.op = "replace"
    /\ last.invalid
    /\ last.written # {}

\* C7: a replacement for a unit whose element is no longer in the document
\* is skipped: every element a REPLACE_TEXT writes is in the document.
DetachedNotWritten ==
    last.op = "replace" => \A n \in last.written : IsConnected(n)
\* ------------------------------------------------------------------ detector claims
\* The elements of the document among S, in document order.
InDocumentOrder(S) == SelectSeq(Tail(PreOrder(Document)), LAMBDA n : n \in S)

\* C11: for every list of elements in document order, the stack algorithm
\* marks exactly the elements the pairwise test finds to hold another
\* element of the list.
StackEqualsPairwise ==
    \A S \in SUBSET Nodes :
        LET allBlocks == InDocumentOrder(S) IN
        findNonLeafBlocks(allBlocks)
            = {b \in Range(allBlocks) : hasBlockDescendant(b, allBlocks)}

\* An extraction ran on a page where a candidate that holds another
\* candidate is followed by a candidate outside it: the stack was popped.
StackEqualsPairwiseWitness ==
    /\ last.op = "extract"
    /\ \E i \in 1..Len(Candidates), j \in 1..Len(Candidates) :
          /\ i < j
          /\ HoldsCandidate(Candidates[i])
          /\ ~Contains(Candidates[i], Candidates[j])
\* ------------------------------------------------------------------ registry claims
\* The candidates of the page as it is now that are no container, are not
\* excluded and are not blank, in document order.
UnitsOfPage ==
    SelectSeq(Candidates,
              LAMBDA b : ~HoldsCandidate(b) /\ ~InExcludedSubtree(b) /\ ~IsBlank(b))

\* C12: the registry is replaced wholesale. Before any extraction it is
\* empty and nothing has been written; right after an extraction it holds
\* exactly the units of that pass, each once and in document order; and no
\* step other than an extraction changes it.
RegistryIsLatestPass ==
    /\ [](/\ issued = <<>> => extractedBlocks = <<>> /\ last.written = {} /\ ~last.changed
          /\ last.op = "extract" => extractedBlocks = UnitsOfPage)
    /\ [][last'.op # "extract" => extractedBlocks' = extractedBlocks]_vars

\* A second extraction registered fewer units than the pass it superseded.
RegistryIsLatestPassWitness ==
    /\ last.op = "extract"
    /\ Len(issued) = 2
    /\ Len(extractedBlocks) < issued[2]
\* ------------------------------------------------------------------ frame claims
\* C13: a replacement for one unit writes the element of that unit alone:
\* every other registered element reads the innerHTML it read before, every
\* other element keeps its own content, and a REPLACE_TEXT step leaves the
\* registry as it was, entries and order.
ApplyFrame ==
    /\ [](\A i \in Units : \A t \in Translations :
             LET r == replaceTextNodes(Dom, extractedBlocks, One(i, t)) IN
             /\ r.written = {extractedBlocks[i]}
             /\ \A j \in Units \ {i} :
                   Serialize(r.dom, extractedBlocks[j]) = InnerHTML(extractedBlocks[j])
             /\ \A n \in Nodes \ {extractedBlocks[i]} :
                   /\ r.dom.inlineMarkup[n] = inlineMarkup[n]
                   /\ r.dom.childNodes[n] = childNodes[n])
    /\ [][last'.op = "replace" => extractedBlocks' = extractedBlocks]_vars

\* With two units registered, a REPLACE_TEXT wrote one element and changed
\* the page.
ApplyFrameWitness ==
    /\ last.op = "replace"
    /\ Cardinality(last.written) = 1
    /\ last.changed
    /\ Len(extractedBlocks) >= 2
\* ------------------------------------------------------------------ container claims
\* Text that lies directly in element n and is not whitespace.
HasOwnText(n) ==
    \E k \in 1..Len(inlineMarkup[n]) :
        inlineMarkup[n][k].k = "text" /\ ~IsWhitespace(inlineMarkup[n][k])

\* C14: after an extraction no candidate that holds another candidate is
\* registered, whatever becomes of the candidates it holds, and neither is
\* any element around it: the text directly in it is in no unit.
ContainerNeverExtracted ==
    last.op = "extract" =>
        \A b \in Range(Candidates) :
            HoldsCandidate(b) => InclusiveAncestors(b) \cap Range(extractedBlocks) = {}

\* An extraction ran on a page with a candidate that has text of its own,
\* is not excluded, and holds only candidates that are excluded or blank.
ContainerNeverExtractedWitness ==
    /\ last.op = "extract"
    /\ \E b \in Range(Candidates) :
          /\ HoldsCandidate(b)
          /\ HasOwnText(b)
          /\ ~InExcludedSubtree(b)
          /\ \A c \in Range(Candidates) :
                (c # b /\ Contains(b, c)) => (InExcludedSubtree(c) \/ IsBlank(c))
          /\ b \notin Range(extractedBlocks)
\* ------------------------------------------------------------------ extraction frame
\* C15: an extraction step leaves the children, the inline content and the
\* tag of every element as they were, and an extraction that follows an
\* extraction returns the same texts and registers the same elements in the
\* same order: running it again on the page it left gives what it gave.
ExtractionRepeatable ==
    /\ [](last.op = "extract" =>
             extractTranslatableContents
                 = [extractedBlocks |-> extractedBlocks, texts |-> texts])
    /\ [][last'.op = "extract" =>
             /\ UNCHANGED <<childNodes, element, inlineMarkup>>
             /\ last.op = "extract" => UNCHANGED <<extractedBlocks, texts>>]_vars

\* A second extraction in a row registered two units.
ExtractionRepeatableWitness ==
    /\ last.op = "extract"
    /\ Len(issued) = 2
    /\ Len(extractedBlocks) >= 2
    /\ Len(texts) = Len(extractedBlocks)
====
